---- MODULE Spec2Model ----
(***************************************************************************)
(* A model of app.py, the Streamlit sugarcane yield predictor.             *)
(*                                                                         *)
(* Streamlit re-runs the whole script, top to bottom, once per user        *)
(* interaction.  The model follows one browser session of one server       *)
(* process: `pc` is the position of the current script run, the           *)
(* environment (secrets, the two pickle files) is fixed at Init, the       *)
(* st.cache_resource entry and the widget state outlive a run, and every   *)
(* name the script assigns is re-created by each run.                      *)
(*                                                                         *)
(* Numbers are fixed-point integers in thousandths (0.65 is 650, 34 is     *)
(* 34000): `x * 0.8` is (x * 8) \div 10 and `x - 5` is x - 5000.           *)
(* A column name `<prefix>_<level>` built by pandas.get_dummies is the     *)
(* pair <<prefix, level>>; any other column name is the 1-tuple <<name>>.  *)
(* An optional value (None or a value) is a sequence of length 0 or 1.     *)
(***************************************************************************)
EXTENDS Integers, Sequences, FiniteSets, TLC

VARIABLES
    secrets,            \* .streamlit/secrets.toml as st.secrets sees it
    modelFile,          \* os.path.exists(MODEL_PATH)
    columnsFile,        \* COLUMNS_PATH exists
    pickledColumns,     \* the column list stored in model_columns.pkl
    cache,              \* the st.cache_resource entry of load_model
    diskReads,          \* joblib.load calls made by this process, per file
    widgetState,        \* the session's selectbox indices (1-based)
    pc,                 \* position of the current script run
    button,             \* st.button's return value in the current run
    TALUKA_WEATHER_MAP,
    model,
    model_columns,
    taluka,
    season,
    variety,
    soil,
    irrigation,
    weather_data,
    input_data,
    input_df_encoded,
    input_df_final,
    pred,
    e,
    displayed,          \* st.error / st.success elements of the current run
    rendered,           \* the elements the current run has put on the page
    status,             \* how the current run ended
    exc,                \* the uncaught exception that ended the run
    failedBefore        \* history: an earlier submission's inference failed

envVars == <<secrets, modelFile, columnsFile, pickledColumns>>
runVars == <<TALUKA_WEATHER_MAP, model, model_columns, taluka, season, variety,
             soil, irrigation, weather_data, input_data, input_df_encoded,
             input_df_final, pred, e, displayed, rendered, status, exc>>
vars == <<envVars, cache, diskReads, widgetState, pc, button, runVars,
          failedBefore>>

(***************************************************************************)
(* Bounds                                                                  *)
(***************************************************************************)
\* A new script run starts only while the model file was read fewer times.
MaxReads == 3

(***************************************************************************)
(* Program constants                                                       *)
(***************************************************************************)
Seasons == <<"Suru", "Pre-seasonal", "Adsali">>
Varieties == <<"CoM 0265", "Co 86032", "Co 92005", "VSI 434">>
SoilTypes == <<"Black Cotton", "Clay Loam", "Sandy Loam", "Medium Black">>
IrrigationMethods == <<"Drip", "Flood", "Rainfed">>

\* pd.get_dummies(..., columns=[...])
CategoricalColumns ==
    <<"Taluka", "Season", "Cane_Variety", "Soil_Type", "Irrigation_Method">>

\* 'Area_Harvested_Ha': 1.0, in thousandths
AreaHarvestedHa == 1000
\* weather_data['max_temp'] - 5, in thousandths
LstOffset == 5000

MODEL_PATH == "models/sugarcane_yield_model.pkl"
COLUMNS_PATH == "models/model_columns.pkl"

None == "<None>"
NotAssigned == "<not assigned>"
NoException == [type |-> "none", line |-> 0]

(***************************************************************************)
(* Sequence helpers                                                        *)
(***************************************************************************)
Range(s) == {s[i] : i \in 1..Len(s)}

Reverse(s) == [i \in 1..Len(s) |-> s[Len(s) + 1 - i]]

(***************************************************************************)
(* The environment's inputs                                                *)
(***************************************************************************)
WeatherFields ==
    {"rainfall", "max_temp", "min_temp", "humidity", "solar", "ndvi", "lat",
     "lon"}

\* The fields the metrics panel formats (lines 71-76).
MetricFields == {"rainfall", "max_temp", "humidity", "solar"}

\* The fields input_data reads (lines 92-102).
InputFields == WeatherFields

WeatherX ==
    [rainfall |-> 1200000, max_temp |-> 34000, min_temp |-> 22000,
     humidity |-> 70000, solar |-> 5500, ndvi |-> 650, lat |-> 17100,
     lon |-> 74200]

WeatherY ==
    [rainfall |-> 640000, max_temp |-> 31500, min_temp |-> 19000,
     humidity |-> 55000, solar |-> 6100, ndvi |-> 400, lat |-> 18520,
     lon |-> 73850]

\* A record of the table that lacks a field: st.secrets validates nothing.
Without(w, f) == [k \in (DOMAIN w) \ {f} |-> w[k]]

\* A table is an ordered mapping: a sequence of <<key, record>> pairs.
WeatherTables ==
    { <<>>,
      << <<"X", WeatherX>>, <<"Y", WeatherY>> >>,
      << <<"X", WeatherX>>, <<"Z", Without(WeatherY, "lat")>> >>,
      << <<"Y", Without(WeatherY, "rainfall")>> >> }

SecretsStates ==
    { [exists |-> FALSE, keys |-> {}, taluka_weather |-> <<>>],
      [exists |-> TRUE, keys |-> {"database"}, taluka_weather |-> <<>>] }
    \cup { [exists |-> TRUE, keys |-> {"taluka_weather"}, taluka_weather |-> t] :
           t \in WeatherTables }

NumericColumns ==
    << <<"Latitude">>, <<"Longitude">>, <<"Area_Harvested_Ha">>,
       <<"Avg_NDVI">>, <<"Avg_EVI">>, <<"Avg_LST_Celsius">>,
       <<"Avg_Max_Temp_Celsius">>, <<"Avg_Min_Temp_Celsius">>,
       <<"Avg_Humidity_Percent">>, <<"Solar_Radiation_kWh">>,
       <<"Accumulated_Rainfall_mm">> >>

DummyColumns(prefix, levels) == [i \in 1..Len(levels) |-> <<prefix, levels[i]>>]

\* The columns of a training frame that saw every value the form offers.
TrainingColumns ==
    NumericColumns
        \o DummyColumns("Taluka", <<"X", "Y">>)
        \o DummyColumns("Season", Seasons)
        \o DummyColumns("Cane_Variety", Varieties)
        \o DummyColumns("Soil_Type", SoilTypes)
        \o DummyColumns("Irrigation_Method", IrrigationMethods)

NotFirstLevel(c) ==
    c \notin { <<"Taluka", "X">>, <<"Season", "Suru">>,
               <<"Cane_Variety", "CoM 0265">>, <<"Soil_Type", "Black Cotton">>,
               <<"Irrigation_Method", "Drip">> }

NotDerived(c) ==
    c \notin { <<"Avg_EVI">>, <<"Avg_LST_Celsius">>, <<"Area_Harvested_Ha">> }

\* The column lists model_columns.pkl may hold.
Schemas ==
    { TrainingColumns,
      Reverse(TrainingColumns),
      SelectSeq(TrainingColumns, NotFirstLevel),
      SelectSeq(TrainingColumns, NotDerived),
      << <<"Year">>, <<"Cane_Variety", "Co 0238">>, <<"Avg_EVI">>,
         <<"Season", "Adsali">>, <<"Taluka", "Z">>, <<"Taluka">> >>,
      <<>> }

\* What model.predict(...)[0] may do: return a number or raise.
Predictions == {85254, 102338}
Faults == {"X has 3 features, but the model is expecting 28", "internal fault"}

(***************************************************************************)
(* Mapping (ordered dict) operations                                       *)
(***************************************************************************)
\* list(TALUKA_WEATHER_MAP.keys())
Keys(map) == [i \in 1..Len(map) |-> map[i][1]]

HasKey(map, k) == \E i \in 1..Len(map) : map[i][1] = k

\* TALUKA_WEATHER_MAP[k], for a key the mapping has
Lookup(map, k) == map[CHOOSE i \in 1..Len(map) : map[i][1] = k][2]

(***************************************************************************)
(* One-row data frames: a sequence of [col, val] in column order           *)
(***************************************************************************)
Columns(df) == [i \in 1..Len(df) |-> df[i].col]

HasColumn(df, c) == \E i \in 1..Len(df) : df[i].col = c

Value(df, c) == df[CHOOSE i \in 1..Len(df) : df[i].col = c].val

\* st.selectbox(label, options): the option at the widget's index, None
\* when there are no options.
selectbox(options, index) ==
    IF Len(options) = 0 THEN None ELSE options[index]

\* f"{pred:.2f}": thousandths rounded to hundredths.
Format2f(p) == (p + 5) \div 10

(***************************************************************************)
(* Feature assembly (lines 86-108)                                         *)
(***************************************************************************)
\* input_data with the surface-temperature proxy taken from min_temp.
InputDataFromMinTemp(t, se, v, so, ir, w) ==
    << [col |-> <<"Taluka">>, val |-> t],
       [col |-> <<"Season">>, val |-> se],
       [col |-> <<"Cane_Variety">>, val |-> v],
       [col |-> <<"Soil_Type">>, val |-> so],
       [col |-> <<"Irrigation_Method">>, val |-> ir],
       [col |-> <<"Latitude">>, val |-> w["lat"]],
       [col |-> <<"Longitude">>, val |-> w["lon"]],
       [col |-> <<"Area_Harvested_Ha">>, val |-> AreaHarvestedHa],
       [col |-> <<"Avg_NDVI">>, val |-> w["ndvi"]],
       [col |-> <<"Avg_EVI">>, val |-> (w["ndvi"] * 8) \div 10],
       [col |-> <<"Avg_LST_Celsius">>, val |-> w["min_temp"] - LstOffset],
       [col |-> <<"Avg_Max_Temp_Celsius">>, val |-> w["max_temp"]],
       [col |-> <<"Avg_Min_Temp_Celsius">>, val |-> w["min_temp"]],
       [col |-> <<"Avg_Humidity_Percent">>, val |-> w["humidity"]],
       [col |-> <<"Solar_Radiation_kWh">>, val |-> w["solar"]],
       [col |-> <<"Accumulated_Rainfall_mm">>, val |-> w["rainfall"]] >>

\* The input_data dict literal, as the one row of pd.DataFrame([input_data]).
InputData(t, se, v, so, ir, w) ==
    << [col |-> <<"Taluka">>, val |-> t],
       [col |-> <<"Season">>, val |-> se],
       [col |-> <<"Cane_Variety">>, val |-> v],
       [col |-> <<"Soil_Type">>, val |-> so],
       [col |-> <<"Irrigation_Method">>, val |-> ir],
       [col |-> <<"Latitude">>, val |-> w["lat"]],
       [col |-> <<"Longitude">>, val |-> w["lon"]],
       [col |-> <<"Area_Harvested_Ha">>, val |-> AreaHarvestedHa],
       [col |-> <<"Avg_NDVI">>, val |-> w["ndvi"]],
       [col |-> <<"Avg_EVI">>, val |-> (w["ndvi"] * 8) \div 10],
       [col |-> <<"Avg_LST_Celsius">>, val |-> w["max_temp"] - LstOffset],
       [col |-> <<"Avg_Max_Temp_Celsius">>, val |-> w["max_temp"]],
       [col |-> <<"Avg_Min_Temp_Celsius">>, val |-> w["min_temp"]],
       [col |-> <<"Avg_Humidity_Percent">>, val |-> w["humidity"]],
       [col |-> <<"Solar_Radiation_kWh">>, val |-> w["solar"]],
       [col |-> <<"Accumulated_Rainfall_mm">>, val |-> w["rainfall"]] >>

\* get_dummies with an empty prefix: the indicator column is named by the level
\* alone.
get_dummies_no_prefix(df, columns) ==
    LET Kept(entry) == \A i \in 1..Len(columns) : entry.col # <<columns[i]>>
        dummies == [i \in 1..Len(columns) |->
                      [col |-> <<Value(df, <<columns[i]>>)>>, val |-> 1]]
    IN  SelectSeq(df, Kept) \o dummies

\* pd.get_dummies(df, columns=columns) of a one-row frame: the other columns
\* in their order, then one indicator column <prefix>_<level> per encoded
\* column, for the only level the row has.
get_dummies(df, columns) ==
    LET Kept(entry) == \A i \in 1..Len(columns) : entry.col # <<columns[i]>>
        dummies == [i \in 1..Len(columns) |->
                      [col |-> <<columns[i], Value(df, <<columns[i]>>)>>,
                       val |-> 1]]
    IN  SelectSeq(df, Kept) \o dummies

\* A reindex that adds the missing columns but keeps the frame's own columns
\* and their order.
reindex_keep_frame(df, columns, fill_value) ==
    LET Missing(c) == ~HasColumn(df, c)
        missing == SelectSeq(columns, Missing)
    IN  df \o [i \in 1..Len(missing) |-> [col |-> missing[i], val |-> fill_value]]

\* A reindex that fills an absent column with 1 whatever fill_value says.
reindex_fill_one(df, columns, fill_value) ==
    [i \in 1..Len(columns) |->
        [col |-> columns[i],
         val |-> IF HasColumn(df, columns[i])
                 THEN Value(df, columns[i])
                 ELSE 1]]

\* df.reindex(columns=columns, fill_value=fill_value)
reindex(df, columns, fill_value) ==
    [i \in 1..Len(columns) |->
        [col |-> columns[i],
         val |-> IF HasColumn(df, columns[i])
                 THEN Value(df, columns[i])
                 ELSE fill_value]]

(***************************************************************************)
(* The page                                                                *)
(***************************************************************************)
FormControls == Range(CategoricalColumns) \cup {"Predict Yield"}

\* The options of each selectbox (lines 56-60).
Options(label, map) ==
    CASE label = "Taluka" -> Keys(map)
      [] label = "Season" -> Seasons
      [] label = "Cane_Variety" -> Varieties
      [] label = "Soil_Type" -> SoilTypes
      [] label = "Irrigation_Method" -> IrrigationMethods

Error(text, arg) == [kind |-> "error", text |-> text, arg |-> arg]

Success(text, arg) == [kind |-> "success", text |-> text, arg |-> arg]

(***************************************************************************)
(* Initial state: a fresh process, a fresh session, the first script run   *)
(* about to start.                                                         *)
(***************************************************************************)
Init ==
    /\ secrets \in SecretsStates
    /\ modelFile \in BOOLEAN
    /\ columnsFile \in BOOLEAN
    /\ pickledColumns \in (IF columnsFile THEN Schemas ELSE {<<>>})
    /\ cache = <<>>
    /\ diskReads = [model |-> 0, columns |-> 0]
    /\ widgetState = [label \in Range(CategoricalColumns) |-> 1]
    /\ pc = "secrets"
    /\ button = FALSE
    /\ TALUKA_WEATHER_MAP = <<>>
    /\ model = NotAssigned
    /\ model_columns = <<>>
    /\ taluka = NotAssigned
    /\ season = NotAssigned
    /\ variety = NotAssigned
    /\ soil = NotAssigned
    /\ irrigation = NotAssigned
    /\ weather_data = <<>>
    /\ input_data = <<>>
    /\ input_df_encoded = <<>>
    /\ input_df_final = <<>>
    /\ pred = <<>>
    /\ e = <<>>
    /\ displayed = <<>>
    /\ rendered = {}
    /\ status = "running"
    /\ exc = NoException
    /\ failedBefore = FALSE

(***************************************************************************)
(* How a script run ends                                                   *)
(***************************************************************************)
\* The script ran to its last line.
Completed ==
    /\ pc' = "idle"
    /\ status' = "completed"
    /\ exc' = NoException

\* st.stop()
Stop ==
    /\ pc' = "idle"
    /\ status' = "stopped"
    /\ exc' = NoException

\* An exception no handler of the script catches: Streamlit aborts the run.
Raise(type, line) ==
    /\ pc' = "idle"
    /\ status' = "exception"
    /\ exc' = [type |-> type, line |-> line]

\* The run goes on to the next block of the script.
Goto(next) ==
    /\ pc' = next
    /\ UNCHANGED <<status, exc>>

(***************************************************************************)
(* User interactions: each starts a new run of the script from line 1.     *)
(***************************************************************************)
StartRun(pressed) ==
    /\ pc = "idle"
    /\ diskReads.model < MaxReads
    /\ pc' = "secrets"
    /\ button' = pressed
    /\ TALUKA_WEATHER_MAP' = <<>>
    /\ model' = NotAssigned
    /\ model_columns' = <<>>
    /\ taluka' = NotAssigned
    /\ season' = NotAssigned
    /\ variety' = NotAssigned
    /\ soil' = NotAssigned
    /\ irrigation' = NotAssigned
    /\ weather_data' = <<>>
    /\ input_data' = <<>>
    /\ input_df_encoded' = <<>>
    /\ input_df_final' = <<>>
    /\ pred' = <<>>
    /\ e' = <<>>
    /\ displayed' = <<>>
    /\ rendered' = {}
    /\ status' = "running"
    /\ exc' = NoException
    /\ UNCHANGED <<envVars, cache, diskReads, failedBefore>>

\* The user reruns the page without touching a widget.
Rerun ==
    /\ StartRun(FALSE)
    /\ UNCHANGED widgetState

\* The user picks another option of a selectbox that is on the page.
SelectOption ==
    \E label \in Range(CategoricalColumns) \cap rendered :
        \E index \in 1..Len(Options(label, TALUKA_WEATHER_MAP[1])) :
            /\ index # widgetState[label]
            /\ StartRun(FALSE)
            /\ widgetState' = [widgetState EXCEPT ![label] = index]

\* The user presses "Predict Yield", which is on the page.
PressButton ==
    /\ "Predict Yield" \in rendered
    /\ StartRun(TRUE)
    /\ UNCHANGED widgetState

(***************************************************************************)
(* The script, block by block                                              *)
(***************************************************************************)
formVars == <<taluka, season, variety, soil, irrigation, weather_data>>
frameVars == <<input_data, input_df_encoded, input_df_final>>
sessionVars == <<envVars, widgetState, button>>

\* Lines 20-27: TALUKA_WEATHER_MAP = st.secrets["taluka_weather"], with the
\* two handlers that show an error and stop.
LoadSecretsNoStop ==
    /\ pc = "secrets"
    /\ IF ~secrets.exists
       THEN /\ displayed' = Append(displayed,
                   Error("Secrets file not found! Please ensure .streamlit/secrets.toml exists.", ""))
            /\ Goto("load")
            /\ UNCHANGED TALUKA_WEATHER_MAP
       ELSE IF "taluka_weather" \notin secrets.keys
       THEN /\ displayed' = Append(displayed,
                   Error("Key 'taluka_weather' not found in secrets!", ""))
            /\ Goto("load")
            /\ UNCHANGED TALUKA_WEATHER_MAP
       ELSE /\ TALUKA_WEATHER_MAP' = <<secrets.taluka_weather>>
            /\ Goto("load")
            /\ UNCHANGED displayed
    /\ UNCHANGED <<sessionVars, cache, diskReads, model, model_columns,
                   formVars, frameVars, pred, e, rendered, failedBefore>>

LoadSecrets ==
    /\ pc = "secrets"
    /\ IF ~secrets.exists
       THEN /\ displayed' = Append(displayed,
                   Error("Secrets file not found! Please ensure .streamlit/secrets.toml exists.", ""))
            /\ Stop
            /\ UNCHANGED TALUKA_WEATHER_MAP
       ELSE IF "taluka_weather" \notin secrets.keys
       THEN /\ displayed' = Append(displayed,
                   Error("Key 'taluka_weather' not found in secrets!", ""))
            /\ Stop
            /\ UNCHANGED TALUKA_WEATHER_MAP
       ELSE /\ TALUKA_WEATHER_MAP' = <<secrets.taluka_weather>>
            /\ Goto("load")
            /\ UNCHANGED displayed
    /\ UNCHANGED <<sessionVars, cache, diskReads, model, model_columns,
                   formVars, frameVars, pred, e, rendered, failedBefore>>

\* Lines 31-40: model, model_columns = load_model(), under
\* @st.cache_resource.  A cached call returns the stored value and replays
\* the elements the function showed; a call that raises stores nothing.
load_model ==
    /\ pc = "load"
    /\ IF cache # <<>>
       THEN /\ model' = cache[1].model
            /\ model_columns' = cache[1].cols
            /\ displayed' = displayed \o cache[1].shown
            /\ Goto("title")
            /\ UNCHANGED <<cache, diskReads>>
       ELSE IF ~modelFile
       THEN LET shown == <<Error("Model file not found at: ", MODEL_PATH)>>
            IN  /\ model' = None
                /\ model_columns' = <<>>
                /\ displayed' = displayed \o shown
                /\ cache' = <<[model |-> None, cols |-> <<>>, shown |-> shown]>>
                /\ Goto("title")
                /\ UNCHANGED diskReads
       ELSE IF ~columnsFile
       THEN /\ diskReads' = [diskReads EXCEPT !.model = @ + 1]
            /\ Raise("FileNotFoundError", 37)
            /\ UNCHANGED <<model, model_columns, displayed, cache>>
       ELSE /\ diskReads' = [model |-> diskReads.model + 1,
                             columns |-> diskReads.columns + 1]
            /\ model' = "model"
            /\ model_columns' = <<pickledColumns>>
            /\ cache' = <<[model |-> "model", cols |-> <<pickledColumns>>,
                           shown |-> <<>>]>>
            /\ Goto("title")
            /\ UNCHANGED displayed
    /\ UNCHANGED <<sessionVars, TALUKA_WEATHER_MAP, formVars, frameVars, pred,
                   e, rendered, failedBefore>>

\* Lines 43-47: the title, then `if not model: st.stop()`.
Title ==
    /\ pc = "title"
    /\ rendered' = rendered \cup {"title"}
    /\ IF model = None THEN Stop ELSE Goto("form")
    /\ UNCHANGED <<sessionVars, cache, diskReads, TALUKA_WEATHER_MAP, model,
                   model_columns, formVars, frameVars, pred, e, displayed,
                   failedBefore>>

\* Lines 52-63: the five selectboxes, then weather_data =
\* TALUKA_WEATHER_MAP[taluka].
FarmDetails ==
    /\ pc = "form"
    /\ rendered' = rendered \cup Range(CategoricalColumns)
    /\ taluka' = selectbox(Options("Taluka", TALUKA_WEATHER_MAP[1]),
                           widgetState["Taluka"])
    /\ season' = selectbox(Seasons, widgetState["Season"])
    /\ variety' = selectbox(Varieties, widgetState["Cane_Variety"])
    /\ soil' = selectbox(SoilTypes, widgetState["Soil_Type"])
    /\ irrigation' = selectbox(IrrigationMethods,
                               widgetState["Irrigation_Method"])
    /\ IF HasKey(TALUKA_WEATHER_MAP[1], taluka')
       THEN /\ weather_data' = <<Lookup(TALUKA_WEATHER_MAP[1], taluka')>>
            /\ Goto("metrics")
       ELSE /\ Raise("KeyError", 63)
            /\ UNCHANGED weather_data
    /\ UNCHANGED <<sessionVars, cache, diskReads, TALUKA_WEATHER_MAP, model,
                   model_columns, frameVars, pred, e, displayed, failedBefore>>

\* Lines 65-76: the four metrics of the selected location.
EnvironmentalConditions ==
    /\ pc = "metrics"
    /\ IF MetricFields \subseteq DOMAIN weather_data[1]
       THEN /\ rendered' = rendered \cup {"metrics"}
            /\ Goto("button")
       ELSE /\ Raise("KeyError", 71)
            /\ UNCHANGED rendered
    /\ UNCHANGED <<sessionVars, cache, diskReads, TALUKA_WEATHER_MAP, model,
                   model_columns, formVars, frameVars, pred, e, displayed,
                   failedBefore>>

\* Line 83: st.button; without a press the script is over.
PredictYieldButton ==
    /\ pc = "button"
    /\ rendered' = rendered \cup {"Predict Yield"}
    /\ IF button THEN Goto("prepare") ELSE Completed
    /\ UNCHANGED <<sessionVars, cache, diskReads, TALUKA_WEATHER_MAP, model,
                   model_columns, formVars, frameVars, pred, e, displayed,
                   failedBefore>>

\* Lines 86-108: input_data, input_df, input_df_encoded, input_df_final.
PrepareInput ==
    /\ pc = "prepare"
    /\ IF InputFields \subseteq DOMAIN weather_data[1]
       THEN LET data == InputData(taluka, season, variety, soil, irrigation,
                                  weather_data[1])
                encoded == get_dummies(data, CategoricalColumns)
            IN  /\ input_data' = <<data>>
                /\ input_df_encoded' = <<encoded>>
                /\ input_df_final' = <<reindex(encoded, model_columns[1], 0)>>
                /\ Goto("predict")
       ELSE /\ Raise("KeyError", 92)
            /\ UNCHANGED frameVars
    /\ UNCHANGED <<sessionVars, cache, diskReads, TALUKA_WEATHER_MAP, model,
                   model_columns, formVars, pred, e, displayed, rendered,
                   failedBefore>>

\* Lines 111-117 without the handler: the fault leaves the script.
PredictUncaught ==
    /\ pc = "predict"
    /\ \/ \E p \in Predictions :
            /\ pred' = <<p>>
            /\ displayed' = Append(displayed,
                   Success("### Estimated Yield: Tonnes/Ha", Format2f(p)))
            /\ Completed
            /\ UNCHANGED <<e, failedBefore>>
       \/ \E fault \in Faults :
            /\ e' = <<fault>>
            /\ failedBefore' = TRUE
            /\ Raise("Exception", 112)
            /\ UNCHANGED <<pred, displayed>>
    /\ UNCHANGED <<sessionVars, cache, diskReads, TALUKA_WEATHER_MAP, model,
                   model_columns, formVars, frameVars, rendered>>

\* Lines 111-117: model.predict(input_df_final)[0] inside try/except.
Predict ==
    /\ pc = "predict"
    /\ \/ \E p \in Predictions :
            /\ pred' = <<p>>
            /\ displayed' = Append(displayed,
                   Success("### Estimated Yield: Tonnes/Ha", Format2f(p)))
            /\ UNCHANGED <<e, failedBefore>>
       \/ \E fault \in Faults :
            /\ e' = <<fault>>
            /\ displayed' = Append(displayed,
                   Error("Prediction failed: ", fault))
            /\ failedBefore' = TRUE
            /\ UNCHANGED pred
    /\ Completed
    /\ UNCHANGED <<sessionVars, cache, diskReads, TALUKA_WEATHER_MAP, model,
                   model_columns, formVars, frameVars, rendered>>

Next ==
    \/ LoadSecrets
    \/ load_model
    \/ Title
    \/ FarmDetails
    \/ EnvironmentalConditions
    \/ PredictYieldButton
    \/ PrepareInput
    \/ Predict
    \/ Rerun
    \/ SelectOption
    \/ PressButton

Spec == Init /\ [][Next]_vars

(***************************************************************************)
(* Vocabulary of the properties                                            *)
(***************************************************************************)
\* The value the form selected for a categorical column.
Selected(field) ==
    CASE field = "Taluka" -> taluka
      [] field = "Season" -> season
      [] field = "Cane_Variety" -> variety
      [] field = "Soil_Type" -> soil
      [] field = "Irrigation_Method" -> irrigation

\* The column <field>_<value> of the current selection.
SelectedDummy(field) == <<field, Selected(field)>>

SelectedDummies == {SelectedDummy(field) : field \in Range(CategoricalColumns)}

\* A schema column <field>_<anything>.
IsDummyOf(c, field) == Len(c) = 2 /\ c[1] = field

\* A schema column of some categorical field.
IsCategorical(c) == c[1] \in Range(CategoricalColumns)

Assembled == input_df_final # <<>>

BadSecrets == ~secrets.exists \/ "taluka_weather" \notin secrets.keys

\* This run showed exactly the success message of a prediction.
Displayed ==
    /\ status = "completed"
    /\ Len(displayed) = 1
    /\ displayed[1].kind = "success"

\* This run showed exactly the inline error message of a failed prediction.
Failed ==
    /\ status = "completed"
    /\ Len(displayed) = 1
    /\ displayed[1].kind = "error"

(***************************************************************************)
(* Properties                                                              *)
(***************************************************************************)
\* C1: the row handed to the model has exactly the schema's columns: same
\* length, same names, same order.
C1_ExactSchemaColumns ==
    Assembled => Columns(input_df_final[1]) = model_columns[1]

\* A row was assembled where reindexing both dropped a produced column and
\* added a schema column.
C1_Witness ==
    /\ Assembled
    /\ \E c \in Range(Columns(input_df_encoded[1])) :
            c \notin Range(model_columns[1])
    /\ \E c \in Range(model_columns[1]) :
            c \notin Range(Columns(input_df_encoded[1]))

\* C2: when the selected value of a categorical field has no column in the
\* schema, every schema column of that field is 0 in the assembled row, and a
\* submission with a complete weather record still gets its row assembled.
C2_SchemaMissZeroes ==
    /\ Assembled =>
         \A field \in Range(CategoricalColumns) :
             SelectedDummy(field) \notin Range(model_columns[1]) =>
                 \A i \in 1..Len(input_df_final[1]) :
                     IsDummyOf(input_df_final[1][i].col, field) =>
                         input_df_final[1][i].val = 0
    /\ (pc = "idle" /\ button /\ weather_data # <<>>) =>
         (InputFields \subseteq DOMAIN weather_data[1] => Assembled)

\* A row was assembled for a selection whose column the schema lacks while
\* the schema has other columns of the same field.
C2_Witness ==
    /\ Assembled
    /\ \E field \in Range(CategoricalColumns) :
         /\ SelectedDummy(field) \notin Range(model_columns[1])
         /\ \E c \in Range(model_columns[1]) : IsDummyOf(c, field)

\* C3: when the schema has the five one-hot columns of the selection, the
\* assembled row has exactly those five categorical columns at 1 and every
\* other categorical column at 0.
C3_OneHotOfSelection ==
    (Assembled /\ SelectedDummies \subseteq Range(model_columns[1])) =>
        \A i \in 1..Len(input_df_final[1]) :
            IsCategorical(input_df_final[1][i].col) =>
                input_df_final[1][i].val =
                    (IF input_df_final[1][i].col \in SelectedDummies
                     THEN 1 ELSE 0)

\* A row was assembled under a schema holding the selection's five columns
\* and further categorical columns.
C3_Witness ==
    /\ Assembled
    /\ SelectedDummies \subseteq Range(model_columns[1])
    /\ \E c \in Range(model_columns[1]) :
         IsCategorical(c) /\ c \notin SelectedDummies

\* C4: with either artifact file absent, a run that gets to the loader ends
\* stopped with an artifact-missing error on the page, no form control is
\* rendered and no prediction is attempted.
C4_ArtifactMissingHalts ==
    (~BadSecrets /\ (~modelFile \/ ~columnsFile)) =>
        /\ rendered \cap FormControls = {}
        /\ ~Assembled /\ pred = <<>> /\ e = <<>>
        /\ pc = "idle" =>
             /\ status = "stopped"
             /\ \E i \in 1..Len(displayed) : displayed[i].kind = "error"

\* C5: a failure of the inference call is caught and shown as an inline error
\* holding the fault's description, the run ends normally with the button on
\* the page, and every submission that reaches inference shows exactly the
\* message of its own outcome.
C5_PredictionFailureCaught ==
    /\ e # <<>> =>
         /\ pc = "idle"
         /\ exc = NoException
         /\ Failed
         /\ displayed[1].text = "Prediction failed: "
         /\ displayed[1].arg = e[1]
         /\ "Predict Yield" \in rendered
    /\ pred # <<>> =>
         /\ pc = "idle"
         /\ e = <<>>
         /\ Displayed
         /\ displayed[1].arg = Format2f(pred[1])
    /\ (pc = "idle" /\ Assembled) => (pred # <<>> \/ e # <<>>)

\* A submission succeeded after an earlier submission's inference had failed.
C5_Witness ==
    /\ failedBefore
    /\ pc = "idle"
    /\ pred # <<>>
    /\ Displayed

\* C6: every press of Predict Yield ends in exactly one of Displayed and
\* Failed.
C6_SubmissionEndsDisplayedOrFailed ==
    (pc = "idle" /\ button) => (Displayed \/ Failed) /\ ~(Displayed /\ Failed)

\* C7: each artifact file is read at most once in the life of the process.
C7_ArtifactsReadAtMostOnce ==
    diskReads.model <= 1 /\ diskReads.columns <= 1

\* C8: with the secrets file missing or without the key taluka_weather, the
\* run shows the error and stops before the loader runs and before anything
\* is rendered; no lookup and no prediction happen.
C8_BadSecretsHalt ==
    BadSecrets =>
        /\ pc \in {"secrets", "idle"}
        /\ pc = "idle" =>
             /\ status = "stopped"
             /\ Len(displayed) = 1
             /\ displayed[1].kind = "error"
             /\ displayed[1].text =
                  (IF ~secrets.exists
                   THEN "Secrets file not found! Please ensure .streamlit/secrets.toml exists."
                   ELSE "Key 'taluka_weather' not found in secrets!")
        /\ cache = <<>>
        /\ diskReads = [model |-> 0, columns |-> 0]
        /\ model = NotAssigned
        /\ rendered = {}
        /\ taluka = NotAssigned
        /\ weather_data = <<>>
        /\ ~Assembled /\ pred = <<>> /\ e = <<>>

\* A run has stopped on bad secrets.
C8_Witness ==
    /\ BadSecrets
    /\ pc = "idle"
    /\ status = "stopped"
    /\ displayed # <<>>

\* C9 as stated: the three derived values are in the feature record and reach
\* the model in the assembled row.
C9_DerivedFieldsReachModel ==
    Assembled =>
        /\ HasColumn(input_df_final[1], <<"Avg_EVI">>)
        /\ Value(input_df_final[1], <<"Avg_EVI">>) =
             (weather_data[1]["ndvi"] * 8) \div 10
        /\ HasColumn(input_df_final[1], <<"Avg_LST_Celsius">>)
        /\ Value(input_df_final[1], <<"Avg_LST_Celsius">>) =
             weather_data[1]["max_temp"] - LstOffset
        /\ HasColumn(input_df_final[1], <<"Area_Harvested_Ha">>)
        /\ Value(input_df_final[1], <<"Area_Harvested_Ha">>) = AreaHarvestedHa

\* C9 amended: the feature record has Avg_EVI = ndvi x 0.8, Avg_LST_Celsius =
\* max_temp - 5 and Area_Harvested_Ha = 1.0, and each of these columns that
\* the schema lists has that value in the assembled row.
C9_DerivedFields ==
    /\ input_data # <<>> =>
         /\ Value(input_data[1], <<"Avg_EVI">>) =
              (weather_data[1]["ndvi"] * 8) \div 10
         /\ Value(input_data[1], <<"Avg_LST_Celsius">>) =
              weather_data[1]["max_temp"] - LstOffset
         /\ Value(input_data[1], <<"Area_Harvested_Ha">>) = AreaHarvestedHa
    /\ Assembled =>
         \A i \in 1..Len(input_df_final[1]) :
             /\ input_df_final[1][i].col = <<"Avg_EVI">> =>
                  input_df_final[1][i].val =
                      (weather_data[1]["ndvi"] * 8) \div 10
             /\ input_df_final[1][i].col = <<"Avg_LST_Celsius">> =>
                  input_df_final[1][i].val =
                      weather_data[1]["max_temp"] - LstOffset
             /\ input_df_final[1][i].col = <<"Area_Harvested_Ha">> =>
                  input_df_final[1][i].val = AreaHarvestedHa

\* The spec's scenario: ndvi 0.65 and max_temp 34 assembled under a schema
\* that lists the three derived columns.
C9_Witness ==
    /\ Assembled
    /\ weather_data[1]["ndvi"] = 650
    /\ weather_data[1]["max_temp"] = 34000
    /\ HasColumn(input_df_final[1], <<"Avg_EVI">>)
    /\ Value(input_df_final[1], <<"Avg_EVI">>) = 520
    /\ HasColumn(input_df_final[1], <<"Avg_LST_Celsius">>)
    /\ Value(input_df_final[1], <<"Avg_LST_Celsius">>) = 29000
    /\ HasColumn(input_df_final[1], <<"Area_Harvested_Ha">>)

\* C10: the location handed to the weather lookup is a key of the table.
C10_LookupKeyInTable ==
    taluka # NotAssigned => HasKey(TALUKA_WEATHER_MAP[1], taluka)
====
